---- MODULE Spec2Model ----
(***************************************************************************)
(* A model of rag-sample: the ingestion tool (populate_database.py), its   *)
(* two persisted stores (the Chroma vector index and the SqliteDict        *)
(* document store) and the query tool (query_data.py).                     *)
(*                                                                         *)
(* A Document is a record                                                  *)
(*   [page_content, source, page, id, hash, parent_id]                     *)
(* page_content is a sequence of characters; id, hash and parent_id are    *)
(* the metadata keys "id", "hash" and PARENT_DOC_ID, and hold NoId /       *)
(* NoHash while the key is absent.  Ids are real strings, built as the     *)
(* f-strings of the code build them.                                       *)
(***************************************************************************)
EXTENDS Integers, Sequences, FiniteSets, TLC

----------------------------------------------------------------------------
(* Bounds of the model *)

\* pages of the PDF (numbered from 0), one document per page
MaxPages == 2
\* characters of text in all pages of the PDF together
MaxTokens == 3
\* times the PDF is edited between runs
MaxEdits == 1
\* ingestion runs (complete or aborted) in one behaviour
MaxRuns == 3
\* lines of a query expansion output
MaxLines == 3
\* documents in one result of the retriever
MaxHits == 2
\* documents in an input of split_documents called on its own (SpecSplit)
MaxSplitDocs == 3
\* characters of one document of SpecSplit
MaxLen == 2
MaxInputLen == 2
MaxInputs == 3
MaxChunks == 3
MaxBatch == 2

(* Configuration (env.py): the chunk sizes, scaled down to the texts above *)
PARENT_CHUNK_SIZE == 2
CHILD_CHUNK_SIZE == 1
\* the batch size of add_documents_to_store (500 in the code), scaled down
chunk_size == 2

Alphabet == {"x", "y"}
Sources == {"a.pdf", "a.pdf:0"}
\* load_documents reads this one file
PdfSource == "a.pdf"

\* metadata.get("page") of a document without a page (None)
NoPage == -1
\* source_chunk_idx = None
NoIdx == -1
NoId == ""
NoHash == <<>>

----------------------------------------------------------------------------
(* Helpers *)

Min(a, b) == IF a < b THEN a ELSE b

\* all sequences over S of length lo..hi
SeqsBetween(S, lo, hi) == UNION {[1..n -> S] : n \in lo..hi}

RECURSIVE Flatten(_)
Flatten(ss) == IF ss = <<>> THEN <<>> ELSE Head(ss) \o Flatten(Tail(ss))

RawDocument(text, source, page) ==
    [page_content |-> text, source |-> source, page |-> page,
     id |-> NoId, hash |-> NoHash, parent_id |-> NoId]

----------------------------------------------------------------------------
(* populate_database.py: splitting and identity *)

\* RecursiveCharacterTextSplitter.split_text, as its hard character cut:
\* consecutive pieces of at most size characters, none for an empty text
\* (the library's separators and chunk overlap are left out: they move the
\* cuts, not the number, order or metadata of the pieces)
RECURSIVE SplitText(_, _)
SplitText(text, size) ==
    IF Len(text) = 0 THEN <<>>
    ELSE <<SubSeq(text, 1, Min(size, Len(text)))>>
         \o SplitText(SubSeq(text, Min(size, Len(text)) + 1, Len(text)), size)

\* TextSplitter.split_documents: every piece copies its document's metadata
RECURSIVE SplitterSplitDocuments(_, _)
SplitterSplitDocuments(documents, size) ==
    IF documents = <<>> THEN <<>>
    ELSE LET d == Head(documents)
             pieces == SplitText(d.page_content, size)
         IN  [i \in 1..Len(pieces) |-> [d EXCEPT !.page_content = pieces[i]]]
             \o SplitterSplitDocuments(Tail(documents), size)

\* generate_hash: SHA-256 of the text, hex encoded (injective on the texts here)
generate_hash(text) == <<"sha256">> \o text

\* a page id that leaves the parent index out
CurrentPageIdNoIdx(document, source_chunk_idx) ==
    document.source
    \o ":" \o ToString(IF document.page = NoPage THEN 0 ELSE document.page)

\* current_page_id of generate_documents_with_metadata (lines 205-211)
CurrentPageId(document, source_chunk_idx) ==
    document.source
    \o (IF source_chunk_idx # NoIdx THEN ":" \o ToString(source_chunk_idx) ELSE "")
    \o ":" \o ToString(IF document.page = NoPage THEN 0 ELSE document.page)

\* a counter that is never reset
NextChunkIndexNoReset(current_page_id, last_page_id, chunk_index) ==
    chunk_index + 1

\* lines 213-216: count on inside a page window, restart at a new one
NextChunkIndex(current_page_id, last_page_id, chunk_index) ==
    IF current_page_id = last_page_id THEN chunk_index + 1 ELSE 0

\* the loop of generate_documents_with_metadata from document k on
RECURSIVE GenerateLoop(_, _, _, _, _)
GenerateLoop(documents, source_chunk_idx, k, last_page_id, chunk_index) ==
    IF k > Len(documents) THEN <<>>
    ELSE LET document == documents[k]
             current_page_id == CurrentPageId(document, source_chunk_idx)
             current_chunk_index ==
                 NextChunkIndex(current_page_id, last_page_id, chunk_index)
             id == current_page_id \o ":" \o ToString(current_chunk_index)
         IN  <<[document EXCEPT !.id = id,
                                !.hash = generate_hash(document.page_content)]>>
             \o GenerateLoop(documents, source_chunk_idx, k + 1,
                             current_page_id, current_chunk_index)

generate_documents_with_metadata(documents, source_chunk_idx) ==
    GenerateLoop(documents, source_chunk_idx, 1, NoId, 0)

\* the sub-documents of new_documents[i] (lines 70-78); enumerate counts from 0
SubDocumentsOf(new_documents, i, child_size) ==
    LET document == new_documents[i]
        _sub_documents == generate_documents_with_metadata(
                              SplitterSplitDocuments(<<document>>, child_size), i - 1)
    IN  [j \in 1..Len(_sub_documents) |->
            [_sub_documents[j] EXCEPT !.parent_id = document.id]]

\* split_documents: <<new_documents, sub_documents>>
split_documents(documents, parent_size, child_size) ==
    LET new_documents == generate_documents_with_metadata(
                             SplitterSplitDocuments(documents, parent_size), NoIdx)
        sub_documents ==
            IF child_size > 0
            THEN Flatten([i \in 1..Len(new_documents) |->
                             SubDocumentsOf(new_documents, i, child_size)])
            ELSE <<>>
    IN  <<new_documents, sub_documents>>

\* a batching that hands over the whole list at once
chunk_list_whole(lst, size) == IF lst = <<>> THEN <<>> ELSE <<lst>>

\* chunk_list: lst[i:i + chunk_size] for i in range(0, len(lst), chunk_size)
chunk_list(lst, size) ==
    [b \in 1..((Len(lst) + size - 1) \div size) |->
        SubSeq(lst, (b - 1) * size + 1, Min(b * size, Len(lst)))]

----------------------------------------------------------------------------
(* The persisted stores *)

Ids(chunks) == {chunks[i].id : i \in 1..Len(chunks)}

\* a write that replaces the collection by the batch
AddDocumentsReplace(store, chunk_group) ==
    [id \in Ids(chunk_group) |->
        chunk_group[CHOOSE j \in 1..Len(chunk_group) : chunk_group[j].id = id]]

\* Chroma.add_documents(chunk_group, ids=[...]): upsert by id, in list order
AddDocuments(store, chunk_group) ==
    [id \in DOMAIN store \cup Ids(chunk_group) |->
        IF id \in Ids(chunk_group)
        THEN LET last == CHOOSE j \in 1..Len(chunk_group) :
                            /\ chunk_group[j].id = id
                            /\ \A k \in (j + 1)..Len(chunk_group) : chunk_group[k].id # id
             IN  chunk_group[last]
        ELSE store[id]]

\* Sqlitestore.mget: self.db[key] for every key (KeyError on a missing key)
mget(db, keys) == [i \in 1..Len(keys) |-> db[keys[i]]]

\* a write that keeps the value of a key it already holds
msetKeepOld(db, key_value_pairs) ==
    LET keys == {key_value_pairs[i][1] : i \in 1..Len(key_value_pairs)}
    IN  [key \in DOMAIN db \cup keys |->
            IF key \in DOMAIN db
            THEN db[key]
            ELSE key_value_pairs[CHOOSE j \in 1..Len(key_value_pairs) :
                                     key_value_pairs[j][1] = key][2]]

\* Sqlitestore.mset: self.db[key] = value for every pair, in order
mset(db, key_value_pairs) ==
    LET keys == {key_value_pairs[i][1] : i \in 1..Len(key_value_pairs)}
    IN  [key \in DOMAIN db \cup keys |->
            IF key \in keys
            THEN LET last == CHOOSE j \in 1..Len(key_value_pairs) :
                                /\ key_value_pairs[j][1] = key
                                /\ \A k \in (j + 1)..Len(key_value_pairs) :
                                       key_value_pairs[k][1] # key
                 IN  key_value_pairs[last][2]
            ELSE db[key]]

\* a classification that takes every known id for updated
ClassifyKnownAsUpdated(chunks, ids, store) ==
    <<SelectSeq(chunks, LAMBDA document : document.id \notin ids),
      SelectSeq(chunks, LAMBDA document : document.id \in ids)>>

\* a classification that compares no hashes
ClassifyNoHash(chunks, ids, store) ==
    <<SelectSeq(chunks, LAMBDA document : document.id \notin ids), <<>>>>

\* a classification that reports a changed chunk as new
ClassifyChangedAsNew(chunks, ids, store) ==
    <<SelectSeq(chunks, LAMBDA document :
                    \/ document.id \notin ids
                    \/ store[document.id].hash # document.hash),
      <<>>>>

\* get_documents_to_add_or_update: <<new_documents, updated_documents>>
get_documents_to_add_or_update(chunks, ids, store) ==
    <<SelectSeq(chunks, LAMBDA document : document.id \notin ids),
      SelectSeq(chunks, LAMBDA document :
                    /\ document.id \in ids
                    /\ store[document.id].hash # document.hash)>>

----------------------------------------------------------------------------
(* State *)

VARIABLES
    pc,                \* where the ingestion tool is
    pdf,               \* what load_documents returns for the PDF as it is now
    documents,         \* documents of main / the input of split_documents
    docs,              \* new_documents returned by split_documents
    sub_docs,          \* sub_documents returned by split_documents
    child_chunk_size,  \* CHILD_CHUNK_SIZE of this installation (0: flat mode)
    chroma_exists,     \* os.path.exists(CHROMA_PATH)
    docstore_exists,   \* os.path.exists(DOCSTORE_PATH)
    vectorstore,       \* the Chroma collection: id -> stored document
    docstore,          \* the SqliteDict table: key -> parent document
    existing_ids,      \* add_documents_to_store: the id snapshot
    new_chunks,        \* add_documents_to_store: classified new
    updated_chunks,    \* add_documents_to_store: classified updated
    todo,              \* batches of this run not yet written, in order
    written,           \* batches of this run written so far, in order
    edits,             \* times the PDF was edited
    runs,              \* runs of main started
    last,              \* history: how the last run ended and on which chunks
    before,            \* history: last, as it was when this run opened the stores
    streak,            \* history: the index when the first of the runs repeated
                       \* on these chunks after aborts began, and those aborts
    batch,             \* add_documents_to_store: its chunk_size argument
    index_before,      \* history: the index when this run opened the stores
    unbroken,          \* history: no run has been aborted and no reset done
    qpc,               \* where query_rag is
    lines,             \* the parsed lines of the query expansion output
    results,           \* what the retriever returns, call by call
    questions,         \* query_rag: questions
    searches,          \* the questions the retriever was invoked with, in order
    relevant_docs,     \* query_rag: relevant_docs
    source_pages,      \* query_rag: source_pages
    response_text,     \* query_rag: response_text
    exc,               \* the exception raised inside the try block, if any
    result,            \* what query_rag returned to its caller
    propagated,        \* the exception that left query_rag, if any
    query_text,        \* query_rag: the question it was called with
    context_text,      \* generate_response: context_text
    lpc,               \* where interactive_query_loop is
    inputs,            \* what input() will return, call by call
    consumed,          \* history: what input() has returned so far
    calls              \* history: the arguments query_rag was called with, in order

ivars == <<pc, pdf, documents, docs, sub_docs, child_chunk_size, chroma_exists,
           docstore_exists, vectorstore, docstore, existing_ids, new_chunks,
           updated_chunks, todo, written, edits, runs, last, before, streak,
           batch, index_before, unbroken>>

qvars == <<qpc, lines, results, questions, searches, relevant_docs, source_pages,
           response_text, exc, result, propagated, query_text, context_text>>

lvars == <<lpc, inputs, consumed, calls>>

vars == <<ivars, qvars, lvars>>

EmptyStore == [id \in {} |-> RawDocument(<<>>, "", 0)]

NoRun == [status |-> "none", chunks |-> <<>>, written |-> 0]

\* what load_documents can return: the non-blank pages of one file, in page order
PdfTexts == SeqsBetween(Alphabet, 1, MaxTokens)

RECURSIVE TotalLen(_)
TotalLen(ts) == IF ts = <<>> THEN 0 ELSE Len(Head(ts)) + TotalLen(Tail(ts))

PdfContents ==
    LET shapes == {s \in SeqsBetween(PdfTexts, 0, MaxPages) : TotalLen(s) <= MaxTokens}
    IN  {[i \in 1..Len(s) |-> RawDocument(s[i], PdfSource, i - 1)] : s \in shapes}

\* the chunks add_documents_to_store sends to the vector index (line 110)
VectorstoreDocuments == IF sub_docs # <<>> THEN sub_docs ELSE docs

Ended == pc \in {"idle", "done", "aborted"}

----------------------------------------------------------------------------
(* populate_database.py: main and add_documents_to_store *)

\* before the first run: nothing is persisted
Fresh ==
    /\ docs = <<>>
    /\ sub_docs = <<>>
    /\ child_chunk_size \in {0, CHILD_CHUNK_SIZE}
    /\ chroma_exists = FALSE
    /\ docstore_exists = FALSE
    /\ vectorstore = EmptyStore
    /\ docstore = EmptyStore
    /\ existing_ids = {}
    /\ new_chunks = <<>>
    /\ updated_chunks = <<>>
    /\ todo = <<>>
    /\ written = <<>>
    /\ edits = 0
    /\ runs = 0
    /\ last = NoRun
    /\ before = NoRun
    /\ streak = [base |-> EmptyStore, aborts |-> 0, written |-> 0]
    /\ batch = chunk_size
    /\ index_before = EmptyStore
    /\ unbroken = TRUE

\* no query has been asked
NoException == ""
NoResult == [none |-> TRUE, text |-> ""]

QueryIdle ==
    /\ qpc = "idle"
    /\ questions = <<>>
    /\ searches = <<>>
    /\ relevant_docs = <<>>
    /\ source_pages = <<>>
    /\ response_text = ""
    /\ exc = NoException
    /\ result = NoResult
    /\ propagated = NoException
    /\ context_text = <<>>

\* interactive_query_loop has not been started
LoopIdle ==
    /\ lpc = "idle"
    /\ inputs = <<>>
    /\ consumed = <<>>
    /\ calls = <<>>

Init ==
    /\ pc = "idle"
    /\ pdf \in PdfContents
    /\ documents = <<>>
    /\ Fresh
    /\ lines = <<>>
    /\ results = <<>>
    /\ query_text = ""
    /\ QueryIdle
    /\ LoopIdle

\* the PDF is edited between two runs
EditPdf ==
    /\ Ended
    /\ edits < MaxEdits
    /\ pdf' \in PdfContents \ {pdf}
    /\ edits' = edits + 1
    /\ UNCHANGED <<qvars, lvars, batch, index_before, unbroken>>
    /\ UNCHANGED <<pc, documents, docs, sub_docs, child_chunk_size, chroma_exists,
                   docstore_exists, vectorstore, docstore, existing_ids, new_chunks,
                   updated_chunks, todo, written, runs, last, before, streak>>

\* a reset that forgets the document store
clear_database_index_only ==
    /\ Ended
    /\ runs < MaxRuns
    /\ pc' = "cleared"
    /\ chroma_exists' = FALSE
    /\ vectorstore' = IF chroma_exists THEN EmptyStore ELSE vectorstore
    /\ last' = NoRun
    /\ UNCHANGED <<qvars, lvars, batch, index_before, unbroken>>
    /\ UNCHANGED <<pdf, documents, docs, sub_docs, child_chunk_size, existing_ids,
                   new_chunks, updated_chunks, todo, written, edits, runs, before,
                   streak, docstore_exists, docstore>>

\* a reset that forgets the vector index
clear_database_docstore_only ==
    /\ Ended
    /\ runs < MaxRuns
    /\ pc' = "cleared"
    /\ docstore_exists' = FALSE
    /\ docstore' = IF docstore_exists THEN EmptyStore ELSE docstore
    /\ last' = NoRun
    /\ unbroken' = FALSE
    /\ UNCHANGED <<qvars, lvars, batch, index_before>>
    /\ UNCHANGED <<pdf, documents, docs, sub_docs, child_chunk_size, existing_ids,
                   new_chunks, updated_chunks, todo, written, edits, runs, before,
                   streak, chroma_exists, vectorstore>>

\* main with --reset: clear_database
clear_database ==
    /\ Ended
    /\ runs < MaxRuns
    /\ pc' = "cleared"
    /\ chroma_exists' = FALSE
    /\ vectorstore' = IF chroma_exists THEN EmptyStore ELSE vectorstore
    /\ docstore_exists' = FALSE
    /\ docstore' = IF docstore_exists THEN EmptyStore ELSE docstore
    /\ last' = NoRun
    /\ unbroken' = FALSE
    /\ UNCHANGED <<qvars, lvars, batch, index_before>>
    /\ UNCHANGED <<pdf, documents, docs, sub_docs, child_chunk_size, existing_ids,
                   new_chunks, updated_chunks, todo, written, edits, runs, before,
                   streak>>

\* main: load_documents
load_documents ==
    /\ Ended \/ pc = "cleared"
    /\ runs < MaxRuns
    /\ runs' = runs + 1
    /\ documents' = pdf
    /\ pc' = "loaded"
    /\ UNCHANGED <<qvars, lvars, batch, index_before, unbroken>>
    /\ UNCHANGED <<pdf, docs, sub_docs, child_chunk_size, chroma_exists,
                   docstore_exists, vectorstore, docstore, existing_ids, new_chunks,
                   updated_chunks, todo, written, edits, last, before, streak>>

\* main: split_documents(documents, PARENT_CHUNK_SIZE, CHILD_CHUNK_SIZE)
SplitDocuments ==
    /\ pc = "loaded"
    /\ LET r == split_documents(documents, PARENT_CHUNK_SIZE, child_chunk_size)
       IN  /\ docs' = r[1]
           /\ sub_docs' = r[2]
    /\ pc' = "split"
    /\ UNCHANGED <<qvars, lvars, batch, index_before, unbroken>>
    /\ UNCHANGED <<pdf, documents, child_chunk_size, chroma_exists, docstore_exists,
                   vectorstore, docstore, existing_ids, new_chunks, updated_chunks,
                   todo, written, edits, runs, last, before, streak>>

\* add_documents_to_store, lines 109-119: open both stores, write the parents
\* to the document store, snapshot the ids and classify
OpenAndClassify ==
    /\ pc = "split"
    /\ chroma_exists' = TRUE
    /\ docstore_exists' = TRUE
    /\ docstore' = IF sub_docs # <<>>
                   THEN mset(docstore, [i \in 1..Len(docs) |-> <<docs[i].id, docs[i]>>])
                   ELSE docstore
    /\ existing_ids' = DOMAIN vectorstore
    /\ LET r == get_documents_to_add_or_update(VectorstoreDocuments,
                                               DOMAIN vectorstore, vectorstore)
       IN  /\ new_chunks' = r[1]
           /\ updated_chunks' = r[2]
           /\ todo' = chunk_list(r[1], batch) \o chunk_list(r[2], batch)
    /\ written' = <<>>
    /\ index_before' = vectorstore
    /\ before' = last
    /\ streak' = IF last.status = "aborted" /\ last.chunks = VectorstoreDocuments
                 THEN [streak EXCEPT !.aborts = @ + 1, !.written = @ + last.written]
                 ELSE [base |-> vectorstore, aborts |-> 0, written |-> 0]
    /\ pc' = "writing"
    /\ UNCHANGED <<qvars, lvars, batch, unbroken>>
    /\ UNCHANGED <<pdf, documents, docs, sub_docs, child_chunk_size, vectorstore,
                   edits, runs, last>>

\* add_or_update_documents_to_vectorstore: one vectorstore.add_documents call;
\* the collection rejects a call whose ids repeat (see FailBatch)
WriteBatch ==
    /\ pc = "writing"
    /\ todo # <<>>
    /\ Cardinality(Ids(Head(todo))) = Len(Head(todo))
    /\ vectorstore' = AddDocuments(vectorstore, Head(todo))
    /\ written' = Append(written, Head(todo))
    /\ todo' = Tail(todo)
    /\ UNCHANGED <<qvars, lvars, batch, index_before, unbroken>>
    /\ UNCHANGED <<pc, pdf, documents, docs, sub_docs, child_chunk_size,
                   chroma_exists, docstore_exists, docstore, existing_ids,
                   new_chunks, updated_chunks, edits, runs, last, before, streak>>

\* a failure that is swallowed: the run goes on with the next batch
FailBatchSkip ==
    /\ pc = "writing"
    /\ todo # <<>>
    /\ todo' = Tail(todo)
    /\ UNCHANGED <<qvars, lvars, batch, index_before, unbroken>>
    /\ UNCHANGED <<pc, pdf, documents, docs, sub_docs, child_chunk_size, chroma_exists,
                   docstore_exists, vectorstore, docstore, existing_ids, new_chunks,
                   updated_chunks, written, edits, runs, last, before, streak>>

\* vectorstore.add_documents raises (embedding or index failure): nothing of
\* the batch is stored, the exception leaves add_documents_to_store and main
FailBatch ==
    /\ pc = "writing"
    /\ todo # <<>>
    /\ pc' = "aborted"
    /\ last' = [status |-> "aborted", chunks |-> VectorstoreDocuments,
                written |-> Len(written)]
    /\ unbroken' = FALSE
    /\ UNCHANGED <<qvars, lvars, batch, index_before>>
    /\ UNCHANGED <<pdf, documents, docs, sub_docs, child_chunk_size, chroma_exists,
                   docstore_exists, vectorstore, docstore, existing_ids, new_chunks,
                   updated_chunks, todo, written, edits, runs, before, streak>>

\* add_documents_to_store returns
Finish ==
    /\ pc = "writing"
    /\ todo = <<>>
    /\ pc' = "done"
    /\ last' = [status |-> "done", chunks |-> VectorstoreDocuments,
                written |-> Len(written)]
    /\ UNCHANGED <<qvars, lvars, batch, index_before, unbroken>>
    /\ UNCHANGED <<pdf, documents, docs, sub_docs, child_chunk_size, chroma_exists,
                   docstore_exists, vectorstore, docstore, existing_ids, new_chunks,
                   updated_chunks, todo, written, edits, runs, before, streak>>

Next ==
    \/ EditPdf
    \/ clear_database
    \/ load_documents
    \/ SplitDocuments
    \/ OpenAndClassify
    \/ WriteBatch
    \/ FailBatch
    \/ Finish

Spec == Init /\ [][Next]_vars

----------------------------------------------------------------------------
(* split_documents on its own, over any input sequence of documents *)

AnyDocuments ==
    LET texts == SeqsBetween({"x"}, 0, MaxLen)
        shapes == SeqsBetween(texts \X Sources \X {NoPage, 0, 1}, 0, MaxSplitDocs)
    IN  {[i \in 1..Len(s) |-> RawDocument(s[i][1], s[i][2], s[i][3])] : s \in shapes}

InitSplit ==
    /\ pc = "loaded"
    /\ pdf = <<>>
    /\ documents \in AnyDocuments
    /\ Fresh
    /\ lines = <<>>
    /\ results = <<>>
    /\ query_text = ""
    /\ QueryIdle
    /\ LoopIdle

NextSplit == SplitDocuments

SpecSplit == InitSplit /\ [][NextSplit]_vars

----------------------------------------------------------------------------
(* add_documents_to_store on its own: any chunk list, any index, any batch
   size, no sub_documents *)

ChunkIds == {"a.pdf:0:0", "a.pdf:0:1", "a.pdf:0:2"}

\* a chunk as generate_documents_with_metadata leaves it
Chunk(id, text) ==
    [RawDocument(text, PdfSource, 0) EXCEPT !.id = id, !.hash = generate_hash(text)]

AnyChunk == {Chunk(id, <<c>>) : id \in ChunkIds, c \in Alphabet}

\* the documents argument
AnyChunks == SeqsBetween(AnyChunk, 0, MaxChunks)

\* what the collection can hold when the run opens it
AnyIndex ==
    UNION {{f \in [S -> AnyChunk] : \A id \in S : f[id].id = id} : S \in SUBSET ChunkIds}

InitWrite ==
    /\ pc = "split"
    /\ pdf = <<>>
    /\ documents = <<>>
    /\ docs \in AnyChunks
    /\ sub_docs = <<>>
    /\ child_chunk_size = 0
    /\ vectorstore \in AnyIndex
    /\ chroma_exists = (vectorstore # EmptyStore)
    /\ docstore_exists = FALSE
    /\ docstore = EmptyStore
    /\ existing_ids = {}
    /\ new_chunks = <<>>
    /\ updated_chunks = <<>>
    /\ todo = <<>>
    /\ written = <<>>
    /\ edits = 0
    /\ runs = 1
    /\ last = NoRun
    /\ before = NoRun
    /\ streak = [base |-> EmptyStore, aborts |-> 0, written |-> 0]
    /\ batch \in 1..MaxBatch
    /\ index_before = EmptyStore
    /\ unbroken = TRUE
    /\ lines = <<>>
    /\ results = <<>>
    /\ query_text = ""
    /\ QueryIdle
    /\ LoopIdle

NextWrite ==
    \/ OpenAndClassify
    \/ WriteBatch
    \/ FailBatch
    \/ Finish

SpecWrite == InitWrite /\ [][NextWrite]_vars

----------------------------------------------------------------------------
(* Chunk identity *)

UniqueIds(chunks) ==
    \A i, j \in 1..Len(chunks) : i # j => chunks[i].id # chunks[j].id

\* chunks with the same page id stand next to each other
PageContiguous(chunks, source_chunk_idx) ==
    \A i, j \in 1..Len(chunks) :
        (i < j /\ CurrentPageId(chunks[i], source_chunk_idx)
                   = CurrentPageId(chunks[j], source_chunk_idx))
        => \A k \in i..j : CurrentPageId(chunks[k], source_chunk_idx)
                              = CurrentPageId(chunks[i], source_chunk_idx)

RECURSIVE WindowIndex(_, _, _)
WindowIndex(chunks, source_chunk_idx, k) ==
    IF k = 1 \/ CurrentPageId(chunks[k], source_chunk_idx)
                  # CurrentPageId(chunks[k - 1], source_chunk_idx)
    THEN 0
    ELSE WindowIndex(chunks, source_chunk_idx, k - 1) + 1

WindowNumbered(chunks, source_chunk_idx) ==
    \A k \in 1..Len(chunks) :
        chunks[k].id = CurrentPageId(chunks[k], source_chunk_idx) \o ":"
                       \o ToString(WindowIndex(chunks, source_chunk_idx, k))

\* the children of the i-th parent, as they stand in sub_docs
RECURSIVE ChildOffset(_)
ChildOffset(i) ==
    IF i = 1 THEN 0
    ELSE ChildOffset(i - 1)
         + Len(SplitText(docs[i - 1].page_content, child_chunk_size))

ChildrenAt(i) ==
    SubSeq(sub_docs, ChildOffset(i) + 1,
           ChildOffset(i) + Len(SplitText(docs[i].page_content, child_chunk_size)))

\* C8: generate_documents_with_metadata numbers every run of consecutive
\* chunks with the same page id (source, disambiguator, page) 0, 1, ..., N-1
\* in processing order, and a chunk whose page id differs from its
\* predecessor's gets index 0; for the parents and for each parent's children.
C8_PageWindowNumbering ==
    pc = "split" =>
        /\ WindowNumbered(docs, NoIdx)
        /\ child_chunk_size > 0 =>
               \A i \in 1..Len(docs) : WindowNumbered(ChildrenAt(i), i - 1)

C8_Witness ==
    /\ pc = "split"
    /\ \E k \in 2..Len(docs) :
           /\ docs[k].id = CurrentPageId(docs[k], NoIdx) \o ":1"
           /\ k < Len(docs)
           /\ docs[k + 1].id = CurrentPageId(docs[k + 1], NoIdx) \o ":0"
    /\ child_chunk_size > 0
    /\ \E i \in 1..Len(docs) : Len(ChildrenAt(i)) >= 2

----------------------------------------------------------------------------
(* Incremental ingestion *)

InRun == pc \in {"writing", "done", "aborted"}

\* the run before this one completed, with no reset since
AfterCompletedRun == InRun /\ before.status = "done"

SameIds(a, b) ==
    /\ Len(a) = Len(b)
    /\ \A i \in 1..Len(a) : a[i].id = b[i].id

\* the positions at which the content (hence the hash) of the chunks differs
Changed(a, b) == {i \in 1..Len(a) : a[i].hash # b[i].hash}

\* C2: a run on the chunk set (same ids, same hashes) that the run before it
\* completed on, with no reset in between, classifies no chunk as new and none
\* as updated, and writes nothing to the vector index.
C2_IdempotentReingestion ==
    (AfterCompletedRun /\ before.chunks = VectorstoreDocuments) =>
        /\ new_chunks = <<>>
        /\ updated_chunks = <<>>
        /\ todo = <<>>
        /\ written = <<>>

C2_Witness ==
    /\ pc = "done"
    /\ before.status = "done"
    /\ before.chunks = VectorstoreDocuments
    /\ before.written >= 2
    /\ Len(VectorstoreDocuments) >= 3

\* C3: when exactly one chunk's content changed between two completed runs
\* and all ids stayed the same, the second run's updated list holds exactly
\* that chunk and its new list is empty.
C3_ChangeDetection ==
    (/\ AfterCompletedRun
     /\ SameIds(before.chunks, VectorstoreDocuments)
     /\ Cardinality(Changed(before.chunks, VectorstoreDocuments)) = 1) =>
        /\ new_chunks = <<>>
        /\ updated_chunks =
               <<VectorstoreDocuments[
                     CHOOSE i \in Changed(before.chunks, VectorstoreDocuments) : TRUE]>>

C3_Witness ==
    /\ pc = "done"
    /\ before.status = "done"
    /\ SameIds(before.chunks, VectorstoreDocuments)
    /\ Cardinality(Changed(before.chunks, VectorstoreDocuments)) = 1
    /\ Len(VectorstoreDocuments) >= 3
    /\ Len(updated_chunks) = 1

\* C4: after a completed multi-vector ingestion every child produced from a
\* parent P carries P's id as its parent_id, and the document store returns
\* for that parent_id a document with P's content.
C4_ParentLinkage ==
    (pc = "done" /\ child_chunk_size > 0) =>
        \A i \in 1..Len(docs) :
            \A j \in 1..Len(ChildrenAt(i)) :
                LET child == ChildrenAt(i)[j]
                IN  /\ child.parent_id = docs[i].id
                    /\ child.parent_id \in DOMAIN docstore
                    /\ mget(docstore, <<child.parent_id>>)[1].page_content
                           = docs[i].page_content

\* a second completed multi-vector run that changed a parent's text
C4_Witness ==
    /\ pc = "done"
    /\ child_chunk_size > 0
    /\ Len(docs) >= 2
    /\ \E i \in 1..Len(docs) : Len(ChildrenAt(i)) >= 2
    /\ before.status = "done"
    /\ \E i \in 1..Len(docs) : \E j \in 1..Len(before.chunks) :
           /\ before.chunks[j].parent_id = docs[i].id
           /\ \A k \in 1..Len(ChildrenAt(i)) :
                  before.chunks[j].page_content # ChildrenAt(i)[k].page_content

\* the id -> <<hash, content>> mapping of an index
HashAndContent(store) ==
    [id \in DOMAIN store |-> <<store[id].hash, store[id].page_content>>]

\* what one uninterrupted run on chunks leaves of the index it started from:
\* every chunk under its id, every other entry as it was
UninterruptedResult(store, chunks) ==
    [id \in DOMAIN store \cup Ids(chunks) |->
        IF id \in Ids(chunks)
        THEN LET c == chunks[CHOOSE i \in 1..Len(chunks) : chunks[i].id = id]
             IN  <<c.hash, c.page_content>>
        ELSE <<store[id].hash, store[id].page_content>>]

\* C6: a complete run leaves the index (id -> hash, content) as one
\* uninterrupted run on its chunk set leaves it from the index that was there
\* when the first of the runs on that chunk set began, however many of these
\* runs aborted after writing a prefix of their batches.
C6_RecoveryByRerun ==
    pc = "done" =>
        HashAndContent(vectorstore)
            = UninterruptedResult(streak.base, VectorstoreDocuments)

\* an aborted run that had written a batch over a non-empty index, re-run
C6_Witness ==
    /\ pc = "done"
    /\ streak.aborts >= 1
    /\ streak.written >= 1
    /\ written # <<>>
    /\ \E id \in DOMAIN streak.base :
           streak.base[id].hash # vectorstore[id].hash
    /\ \E id \in DOMAIN vectorstore : id \notin DOMAIN streak.base

\* C7: no step but clear_database removes an id from the vector index.
C7_NoDeletionWithoutReset ==
    [][(DOMAIN vectorstore \subseteq DOMAIN vectorstore') \/ clear_database]_vars

\* the index keeps the id of a chunk that the PDF no longer has
C7_Witness ==
    /\ pc = "done"
    /\ written # <<>>
    /\ \E id \in DOMAIN vectorstore : id \notin Ids(VectorstoreDocuments)
    /\ last.status = "done"

\* C10: clear_database leaves neither persisted path and no entry in either
\* store, whatever they held; when neither path exists it raises nothing and
\* changes nothing.
C10_Reset ==
    [][clear_database =>
          /\ pc' = "cleared"
          /\ ~chroma_exists' /\ ~docstore_exists'
          /\ vectorstore' = EmptyStore /\ docstore' = EmptyStore
          /\ (~chroma_exists /\ ~docstore_exists) =>
                 UNCHANGED <<chroma_exists, docstore_exists, vectorstore, docstore>>
      ]_vars

\* a reset of stores that a multi-vector run had written
C10_Witness ==
    /\ pc = "cleared"
    /\ written # <<>>
    /\ sub_docs # <<>>
    /\ vectorstore = EmptyStore
    /\ docstore = EmptyStore

\* the candidates of this run that the index held with the same hash when the
\* run opened the stores
Unchanged ==
    {i \in 1..Len(VectorstoreDocuments) :
        /\ VectorstoreDocuments[i].id \in DOMAIN index_before
        /\ index_before[VectorstoreDocuments[i].id].hash = VectorstoreDocuments[i].hash}

\* the ids the run has handed, or is about to hand, to vectorstore.add_documents
PassedToWrite == UNION {Ids(todo[k]) : k \in 1..Len(todo)}
                 \cup UNION {Ids(written[k]) : k \in 1..Len(written)}

\* C13: at every point of a run, a candidate whose id the index already held
\* with an equal hash is in no batch passed to the vector index, and its entry
\* is the one the index held when the run began, whatever else the run writes.
C13_UnchangedLeftAlone ==
    InRun =>
        \A i \in Unchanged :
            /\ VectorstoreDocuments[i].id \notin PassedToWrite
            /\ VectorstoreDocuments[i].id \in DOMAIN vectorstore
            /\ vectorstore[VectorstoreDocuments[i].id]
                   = index_before[VectorstoreDocuments[i].id]

\* a completed run that left one chunk alone while it added one and updated
\* another
C13_Witness ==
    /\ pc = "done"
    /\ Unchanged # {}
    /\ new_chunks # <<>>
    /\ updated_chunks # <<>>
    /\ Len(written) >= 2

\* C18: in multi-vector mode, whatever runs, aborted runs and resets have
\* taken place, every entry of the vector index that carries a parent_id
\* carries one that is a key of the document store.
C18_ReferentialIntegrity ==
    child_chunk_size > 0 =>
        \A id \in DOMAIN vectorstore :
            vectorstore[id].parent_id # NoId =>
                vectorstore[id].parent_id \in DOMAIN docstore

\* a run that was aborted after a reset and after it had written children
C18_Witness ==
    /\ pc = "aborted"
    /\ child_chunk_size > 0
    /\ before.status = "none"
    /\ runs >= 2
    /\ \E id \in DOMAIN vectorstore : vectorstore[id].parent_id \in DOMAIN docstore

\* the contents of the children split_documents cuts a parent into
ChildContents(parent) ==
    LET pieces == SplitText(parent.page_content, child_chunk_size)
    IN  {pieces[i] : i \in 1..Len(pieces)}

\* entry is one of the children of the parent the document store holds under
\* its parent_id
ChildOfStoredParent(entry) ==
    /\ entry.parent_id \in DOMAIN docstore
    /\ entry.page_content \in ChildContents(docstore[entry.parent_id])

\* C20 as stated: after completed multi-vector runs with no reset, every
\* entry of the index is a child of the parent stored under its parent_id.
C20_ChildOfStoredParentAnyEntry ==
    (pc = "done" /\ unbroken /\ child_chunk_size > 0) =>
        \A id \in DOMAIN vectorstore : ChildOfStoredParent(vectorstore[id])

\* C20 amended: after a completed multi-vector run, every child the run wrote
\* to the index is stored under its id and is a child of the parent stored
\* under its parent_id.
C20_WrittenChildOfStoredParent ==
    (pc = "done" /\ child_chunk_size > 0) =>
        \A k \in 1..Len(written) : \A i \in 1..Len(written[k]) :
            /\ written[k][i].id \in DOMAIN vectorstore
            /\ vectorstore[written[k][i].id] = written[k][i]
            /\ ChildOfStoredParent(written[k][i])

\* a second completed run that wrote a child while the index kept a child of
\* the run before that the document no longer has
C20_Witness ==
    /\ pc = "done"
    /\ unbroken
    /\ child_chunk_size > 0
    /\ before.status = "done"
    /\ written # <<>>
    /\ \E id \in DOMAIN vectorstore : id \notin Ids(sub_docs)

----------------------------------------------------------------------------
(* Batched writes *)

\* the index after the batches bs have been written to store, one after the other
RECURSIVE ApplyBatches(_, _)
ApplyBatches(store, bs) ==
    IF bs = <<>> THEN store
    ELSE ApplyBatches([id \in DOMAIN store \cup Ids(Head(bs)) |->
                          IF id \in Ids(Head(bs))
                          THEN LET b == Head(bs)
                               IN  b[CHOOSE j \in 1..Len(b) :
                                       /\ b[j].id = id
                                       /\ \A k \in (j + 1)..Len(b) : b[k].id # id]
                          ELSE store[id]],
                      Tail(bs))

\* the new chunks cut into batches, then the updated chunks cut into batches
BatchesInOrder ==
    LET Cut(lst) == [b \in 1..((Len(lst) + batch - 1) \div batch) |->
                        [i \in 1..Min(batch, Len(lst) - (b - 1) * batch) |->
                            lst[(b - 1) * batch + i]]]
    IN  Cut(new_chunks) \o Cut(updated_chunks)

\* C14: at every point of a run the batches written so far followed by the
\* batches still to write are the batches of the new chunks and then those of
\* the updated chunks, in list order, each once; the index holds what those
\* written batches put there and nothing else of the run; a run that ended by
\* a failed write has left the failed batch and every later one unwritten and
\* ended with the error, and a run that returned has written them all.
C14_BatchOrderAndAbort ==
    InRun =>
        /\ written \o todo = BatchesInOrder
        /\ vectorstore = ApplyBatches(index_before, written)
        /\ pc = "aborted" => (todo # <<>> /\ last.status = "aborted"
                                /\ last.written = Len(written))
        /\ pc = "done" => (todo = <<>> /\ last.status = "done")

\* a write of an updated batch failed after a new batch had been written
C14_Witness ==
    /\ pc = "aborted"
    /\ written # <<>>
    /\ new_chunks # <<>>
    /\ Len(written) = Len(chunk_list(new_chunks, batch))
    /\ Len(todo) >= 2

\* bs cuts lst into batches of size, the last one possibly shorter
Partitions(bs, lst, size) ==
    /\ Flatten(bs) = lst
    /\ \A k \in 1..Len(bs) :
           /\ Len(bs[k]) >= 1
           /\ Len(bs[k]) <= size
           /\ k < Len(bs) => Len(bs[k]) = size

\* C15: when add_documents_to_store has returned, the write calls it made
\* are, for the new chunks and then for the updated chunks, batches of at most
\* batch chunks, all but the last of each list of exactly batch chunks, whose
\* concatenation is the list; an empty list has had no write call; every
\* chunk of the two lists has been in exactly one call.
C15_BatchPartition ==
    pc = "done" =>
        \E n \in 0..Len(written) :
            /\ Partitions(SubSeq(written, 1, n), new_chunks, batch)
            /\ Partitions(SubSeq(written, n + 1, Len(written)), updated_chunks, batch)

\* a list of three chunks written in batches of two: a full one and a rest
C15_Witness ==
    /\ pc = "done"
    /\ batch = 2
    /\ Len(new_chunks) = 3
    /\ Len(written) = 2
    /\ Len(written[2]) = 1

\* the statement of C19 for every chunk list
C19_StoredHashAnyChunks ==
    pc = "done" =>
        \A i \in 1..Len(VectorstoreDocuments) :
            /\ VectorstoreDocuments[i].id \in DOMAIN vectorstore
            /\ vectorstore[VectorstoreDocuments[i].id].hash = VectorstoreDocuments[i].hash

\* C19: when add_documents_to_store has returned on a chunk list in which no
\* id occurs twice, the index holds, for every chunk sent to it, an entry
\* under the chunk's id with the chunk's hash, whatever it held before.
C19_StoredHash ==
    (pc = "done" /\ UniqueIds(VectorstoreDocuments)) =>
        \A i \in 1..Len(VectorstoreDocuments) :
            /\ VectorstoreDocuments[i].id \in DOMAIN vectorstore
            /\ vectorstore[VectorstoreDocuments[i].id].hash = VectorstoreDocuments[i].hash

\* a run on an index that held one chunk unchanged, one with another hash and
\* one not at all
C19_Witness ==
    /\ pc = "done"
    /\ UniqueIds(VectorstoreDocuments)
    /\ Unchanged # {}
    /\ new_chunks # <<>>
    /\ updated_chunks # <<>>

----------------------------------------------------------------------------
(* query_data.py *)

\* the label of a retrieved document (line 119)
SourcePage(doc) ==
    doc.source \o " page "
    \o (IF doc.page = NoPage THEN "unknown" ELSE ToString(doc.page))

\* a filter that checks a result against no earlier one
NotSeenNever(result_docs, source_ids) == result_docs

\* lines 114-116: the documents of one result whose id no earlier result had
NotSeen(result_docs, source_ids) ==
    SelectSeq(result_docs, LAMBDA doc : doc.id \notin source_ids)

\* the loop of retrieve_relevant_docs from question k on; retriever[k] is what
\* retriever.invoke returns for the k-th question
RECURSIVE RetrieveLoop(_, _, _, _, _, _)
RetrieveLoop(qs, retriever, k, relevant, source_ids, pages) ==
    IF k > Len(qs) THEN <<relevant, pages>>
    ELSE LET _relevant_docs == NotSeen(retriever[k], source_ids)
         IN  RetrieveLoop(qs, retriever, k + 1,
                          relevant \o _relevant_docs,
                          source_ids \cup Ids(_relevant_docs),
                          pages \o [i \in 1..Len(_relevant_docs) |->
                                       SourcePage(_relevant_docs[i])])

\* retrieve_relevant_docs: <<relevant_docs, source_pages>>
retrieve_relevant_docs(qs, retriever) ==
    RetrieveLoop(qs, retriever, 1, <<>>, {}, <<>>)

\* the classes of the exceptions the stores, the retriever and the language
\* model raise; all derive from Exception
Raisable == {"ConnectionError", "KeyError", "ValueError"}

\* a handler for KeyError alone
CatchesKeyError(e) == e = "KeyError"

\* except Exception (line 104)
Catches(e) == e \in Raisable

\* documents the retriever can return
Retrievable ==
    {[RawDocument(<<"x">>, PdfSource, 0) EXCEPT !.id = "a.pdf:0:0"],
     [RawDocument(<<"y">>, PdfSource, 0) EXCEPT !.id = "a.pdf:0:1"],
     [RawDocument(<<"x">>, PdfSource, 1) EXCEPT !.id = "a.pdf:1:0"]}

Questions == {"q1", "q2"}

\* what the user can ask: a text of its own, or one the expansion also produces
UserQuestions == {"q0", "q1"}

\* the separator of the context documents (line 125)
Separator == <<"---">>

\* line 125: "\n\n---\n\n".join(doc.page_content for doc in relevant_docs)
RECURSIVE Join(_)
Join(contents) ==
    IF contents = <<>> THEN <<>>
    ELSE IF Len(contents) = 1 THEN Head(contents)
    ELSE Head(contents) \o Separator \o Join(Tail(contents))

InitQuery ==
    /\ pc = "idle"
    /\ pdf = <<>>
    /\ documents = <<>>
    /\ Fresh
    /\ lines \in SeqsBetween(Questions, 0, MaxLines)
    /\ results \in [1..(Len(lines) - 1) -> SeqsBetween(Retrievable, 0, MaxHits)]
    /\ query_text \in UserQuestions
    /\ QueryIdle
    /\ LoopIdle

\* lines 68-80: the stores are opened and the retriever is built
QueryOpen ==
    /\ qpc = "idle"
    /\ qpc' = "opened"
    /\ UNCHANGED <<lines, results, questions, searches, relevant_docs, source_pages,
                   response_text, exc, result, propagated>>
    /\ UNCHANGED <<ivars, lvars, query_text, context_text>>

\* an expansion that drops the first two parsed lines
QueryExpandSkipTwo ==
    /\ qpc = "opened"
    /\ questions' = SubSeq(lines, 3, Len(lines))
    /\ qpc' = "expanded"
    /\ UNCHANGED <<lines, results, searches, relevant_docs, source_pages,
                   response_text, exc, result, propagated>>
    /\ UNCHANGED <<ivars, lvars, query_text, context_text>>

\* lines 93-94: questions = model.invoke(...)[1:]
QueryExpand ==
    /\ qpc = "opened"
    /\ questions' = SubSeq(lines, 2, Len(lines))
    /\ qpc' = "expanded"
    /\ UNCHANGED <<lines, results, searches, relevant_docs, source_pages,
                   response_text, exc, result, propagated>>
    /\ UNCHANGED <<ivars, lvars, query_text, context_text>>

\* line 98: retrieve_relevant_docs(questions, retriever)
QueryRetrieve ==
    /\ qpc = "expanded"
    /\ LET r == retrieve_relevant_docs(questions, results)
       IN  /\ relevant_docs' = r[1]
           /\ source_pages' = r[2]
    /\ searches' = questions
    /\ qpc' = "retrieved"
    /\ UNCHANGED <<lines, results, questions, response_text, exc, result, propagated>>
    /\ UNCHANGED <<ivars, lvars, query_text, context_text>>

\* line 99: generate_response(query_text, relevant_docs)
QueryGenerate ==
    /\ qpc = "retrieved"
    /\ context_text' = Join([i \in 1..Len(relevant_docs) |->
                                  relevant_docs[i].page_content])
    /\ response_text' \in {"answer", ""}
    /\ qpc' = "generated"
    /\ UNCHANGED <<lines, results, questions, searches, relevant_docs, source_pages,
                   exc, result, propagated>>
    /\ UNCHANGED <<ivars, lvars, query_text>>

\* lines 101-102: print and return response_text
QueryReturn ==
    /\ qpc = "generated"
    /\ result' = [none |-> FALSE, text |-> response_text]
    /\ qpc' = "returned"
    /\ UNCHANGED <<lines, results, questions, searches, relevant_docs, source_pages,
                   response_text, exc, propagated>>
    /\ UNCHANGED <<ivars, lvars, query_text, context_text>>

\* a call inside the try block raises: opening a store, the expansion, a
\* retrieval or the answer generation
QueryRaise ==
    /\ qpc \in {"idle", "opened", "expanded", "retrieved"}
    /\ exc' \in Raisable
    /\ qpc' = "raised"
    /\ UNCHANGED <<lines, results, questions, searches, relevant_docs, source_pages,
                   response_text, result, propagated>>
    /\ UNCHANGED <<ivars, lvars, query_text, context_text>>

\* lines 104-105: a caught exception is printed and query_rag falls off its
\* end (returns None); one the handler does not catch leaves query_rag
QueryExcept ==
    /\ qpc = "raised"
    /\ IF Catches(exc)
       THEN /\ result' = NoResult
            /\ qpc' = "returned"
            /\ UNCHANGED propagated
       ELSE /\ propagated' = exc
            /\ qpc' = "propagated"
            /\ UNCHANGED result
    /\ UNCHANGED <<lines, results, questions, searches, relevant_docs, source_pages,
                   response_text, exc>>
    /\ UNCHANGED <<ivars, lvars, query_text, context_text>>

NextQuery ==
    \/ QueryOpen
    \/ QueryExpand
    \/ QueryRetrieve
    \/ QueryGenerate
    \/ QueryReturn
    \/ QueryRaise
    \/ QueryExcept

SpecQuery == InitQuery /\ [][NextQuery]_vars

----------------------------------------------------------------------------
(* query_data.py: interactive_query_loop; a typed line is a sequence of keys *)

Keys == {" ", "q", "Q", "a"}

Whitespace == {" "}

\* str.lower on one character
LowerChar(c) ==
    CASE c = "Q" -> "q"
      [] c = "E" -> "e"
      [] c = "X" -> "x"
      [] c = "I" -> "i"
      [] c = "T" -> "t"
      [] OTHER -> c

\* str.lower
Lower(s) == [i \in 1..Len(s) |-> LowerChar(s[i])]

RECURSIVE LStrip(_)
LStrip(s) == IF s # <<>> /\ Head(s) \in Whitespace THEN LStrip(Tail(s)) ELSE s

RECURSIVE RStrip(_)
RStrip(s) ==
    IF s # <<>> /\ s[Len(s)] \in Whitespace THEN RStrip(SubSeq(s, 1, Len(s) - 1)) ELSE s

\* str.strip
Strip(s) == RStrip(LStrip(s))

\* the set literal of line 31
ExitWords == {<<"e", "x", "i", "t">>, <<"q">>}

\* a test that compares the query as typed
IsExitAsTyped(query) == query \in ExitWords

\* line 31: query.lower() in {"exit", "q"}
IsExit(query) == Lower(query) \in ExitWords

\* the lines a user can type: every short line over Keys, and a few around "exit"
TypedLines ==
    SeqsBetween(Keys, 0, MaxInputLen)
    \cup {<<"e", "x", "i", "t">>, <<" ", "E", "x", "I", "T">>,
          <<"e", "x", "i", "t", "a">>}

InitLoop ==
    /\ pc = "idle"
    /\ pdf = <<>>
    /\ documents = <<>>
    /\ Fresh
    /\ lines = <<>>
    /\ results = <<>>
    /\ query_text = ""
    /\ QueryIdle
    /\ lpc = "reading"
    /\ inputs \in SeqsBetween(TypedLines, 0, MaxInputs)
    /\ consumed = <<>>
    /\ calls = <<>>

\* lines 29-34: one pass of the while loop
LoopIteration ==
    /\ lpc = "reading"
    /\ inputs # <<>>
    /\ consumed' = Append(consumed, Head(inputs))
    /\ inputs' = Tail(inputs)
    /\ LET query == Strip(Head(inputs))
       IN  IF IsExit(query)
           THEN /\ lpc' = "exited"
                /\ UNCHANGED calls
           ELSE /\ calls' = IF query # <<>> THEN Append(calls, query) ELSE calls
                /\ UNCHANGED lpc
    /\ UNCHANGED <<ivars, qvars>>

\* line 30: input() at the end of the input stream raises EOFError, which
\* leaves the loop
LoopEndOfInput ==
    /\ lpc = "reading"
    /\ inputs = <<>>
    /\ lpc' = "eof"
    /\ UNCHANGED <<inputs, consumed, calls>>
    /\ UNCHANGED <<ivars, qvars>>

NextLoop ==
    \/ LoopIteration
    \/ LoopEndOfInput

SpecLoop == InitLoop /\ [][NextLoop]_vars

----------------------------------------------------------------------------
(* The interactive loop *)

\* the inputs read so far that end the loop
ExitInputs == {i \in 1..Len(consumed) : Lower(Strip(consumed[i])) \in ExitWords}

\* the inputs read so far that are questions: not blank once trimmed, and not
\* an exit word
AskedInputs ==
    SelectSeq(consumed, LAMBDA x : Strip(x) # <<>> /\ Lower(Strip(x)) \notin ExitWords)

\* C11: the loop ends at the first input that is exit or q once trimmed and
\* lower-cased, reads nothing after it and does not call query_rag for it;
\* until then query_rag has been called exactly once, in input order, with the
\* trimmed text of each input that is not empty once trimmed, and never for an
\* input that is empty once trimmed.
C11_InteractiveLoop ==
    lpc # "idle" =>
        /\ (lpc = "exited") <=> (ExitInputs # {})
        /\ ExitInputs \subseteq {Len(consumed)}
        /\ calls = [i \in 1..Len(AskedInputs) |-> Strip(AskedInputs[i])]

\* the loop has answered a question, skipped a blank line and ended at an
\* exit word typed with capitals or blanks
C11_Witness ==
    /\ lpc = "exited"
    /\ calls # <<>>
    /\ \E i \in 1..Len(consumed) : consumed[i] # <<>> /\ Strip(consumed[i]) = <<>>
    /\ consumed[Len(consumed)] \notin ExitWords

----------------------------------------------------------------------------
(* Retrieval *)

\* the results of the calls the retriever got, one after the other
AllHits == Flatten([k \in 1..Len(searches) |-> results[k]])

\* hits without the ones whose id an earlier one has
FirstById(hits) ==
    LET first == {i \in 1..Len(hits) : \A j \in 1..(i - 1) : hits[j].id # hits[i].id}
        F[i \in 0..Len(hits)] ==
            IF i = 0 THEN <<>>
            ELSE IF i \in first THEN Append(F[i - 1], hits[i]) ELSE F[i - 1]
    IN  F[Len(hits)]

\* C5 as stated: for any retriever results, relevant_docs holds every
\* retrieved id once, in the order of first match.
C5_RetrievalDedupAnyResults ==
    qpc = "retrieved" =>
        /\ UniqueIds(relevant_docs)
        /\ relevant_docs = FirstById(AllHits)

\* C5 amended: when no single result of the retriever holds an id twice,
\* relevant_docs holds every retrieved id once, in the order of first match
\* (variant order, then result order); a document matched again by a later
\* variant is skipped.
C5_RetrievalDedup ==
    (qpc = "retrieved" /\ \A k \in 1..Len(searches) : UniqueIds(results[k])) =>
        /\ UniqueIds(relevant_docs)
        /\ relevant_docs = FirstById(AllHits)

\* two variants, the second matching a document of the first and a new one
C5_Witness ==
    /\ qpc = "retrieved"
    /\ Len(searches) = 2
    /\ UniqueIds(results[1]) /\ UniqueIds(results[2])
    /\ Len(results[1]) = 2
    /\ \E i \in 1..Len(results[2]) : results[2][i].id \in Ids(results[1])
    /\ \E i \in 1..Len(results[2]) : results[2][i].id \notin Ids(results[1])
    /\ Len(relevant_docs) = 3

C16_QueryExpansion ==
    LET variants == [k \in 1..(Len(lines) - 1) |-> lines[k + 1]]
    IN  /\ searches \in {<<>>, variants}
        /\ qpc \in {"retrieved", "generated"} => searches = variants
        /\ (qpc = "generated" /\ Len(lines) <= 1) =>
               /\ searches = <<>>
               /\ relevant_docs = <<>>
               /\ context_text = <<>>

\* an answer generated from what the second and third line retrieved, the
\* first line and the user's question being texts of their own
C16_Witness ==
    /\ qpc = "generated"
    /\ Len(lines) = 3
    /\ searches = <<lines[2], lines[3]>>
    /\ lines[1] # lines[2] /\ lines[1] # lines[3]
    /\ query_text = "q0"
    /\ context_text # <<>>

\* C17 as stated, on the results that list no id twice: no label occurs
\* twice among the source labels.
C17_LabelsDistinct ==
    (qpc = "retrieved" /\ \A k \in 1..Len(searches) : UniqueIds(results[k])) =>
        \A i, j \in 1..Len(source_pages) : i # j => source_pages[i] # source_pages[j]

\* the ids among hits whose document carries label
IdsLabelled(hits, label) ==
    {hits[i].id : i \in {n \in 1..Len(hits) : SourcePage(hits[n]) = label}}

\* C17 amended: the source labels are the labels of the documents of
\* relevant_docs, one each and in the same order; when no single result of the
\* retriever holds an id twice, a label occurs as many times as there are
\* retrieved ids that carry it.
C17_LabelPerDocument ==
    qpc = "retrieved" =>
        /\ source_pages = [i \in 1..Len(relevant_docs) |-> SourcePage(relevant_docs[i])]
        /\ (\A k \in 1..Len(searches) : UniqueIds(results[k])) =>
               \A i \in 1..Len(source_pages) :
                   Cardinality({n \in 1..Len(source_pages) :
                                    source_pages[n] = source_pages[i]})
                       = Cardinality(IdsLabelled(AllHits, source_pages[i]))

\* two chunks of one page were retrieved, one of them by both variants: the
\* label of the page is listed twice, not three times
C17_Witness ==
    /\ qpc = "retrieved"
    /\ Len(searches) = 2
    /\ UniqueIds(results[1]) /\ UniqueIds(results[2])
    /\ Len(AllHits) > Len(relevant_docs)
    /\ \E i, j \in 1..Len(source_pages) : i # j /\ source_pages[i] = source_pages[j]

====
